---- MODULE Spec2Model ----
(***************************************************************************)
(* Model of the scheduling assistant (akashs101199/Ai-Scheduler-Chat-Bot). *)
(*                                                                         *)
(*   SpecChat     the /chat handler of src/app/main.py                     *)
(*   SpecSuggest  suggest_times of src/app/tools/mock_tools.py             *)
(*   SpecSubtract the busy-subtraction loop of suggest_times               *)
(*   SpecAvail    get_availability of src/app/tools/google_tools.py        *)
(*   SpecCreate   create_event of src/app/tools/google_tools.py            *)
(*   SpecOAuth    /auth/google/start and /auth/google/callback of          *)
(*                src/app/google_oauth.py, run by concurrent threads       *)
(*                                                                         *)
(* Each specification runs one component; the variables of the other       *)
(* components stay at their idle values.  Time zones have fixed offsets    *)
(* (no daylight-saving transitions).                                       *)
(***************************************************************************)
EXTENDS Integers, Sequences, FiniteSets, TLC

VARIABLES
    \* ---- /chat handler (main.py) ----
    pc,          \* position of the handler: "idle", "llm1", "tool", "llm2", "done"
    user_id,     \* body.user_id
    messages,    \* roles of the conversation turns sent to the model
    first,       \* text of the first model reply
    tool_call,   \* result of maybe_parse_tool_call(first)
    args,        \* the args object handed to the tool
    name,        \* tool_call["tool"]
    reply,       \* ChatOut.reply, or NoReply
    error,       \* the error the request ended with, or "none"
    events,      \* what the handler did, in order
    tool_user,   \* identity the dispatched tool acts for
    \* ---- get_availability (google_tools.py) ----
    av_pc,       \* "idle", "loop" (at the while test), "done"
    av_params,   \* params of the call
    now_utc,     \* datetime.now(timezone.utc), an instant
    ws,          \* window start, a datetime
    we,          \* window end, a datetime
    av_result,   \* what the call returned or raised
    \* ---- create_event (google_tools.py) ----
    ce_pc,       \* "idle", "done"
    ce_params,   \* params of the call
    ce_now,      \* the instant of datetime.now(tz)
    g_calls,     \* the calls made to google_calendar.create_event, in order
    ce_result,   \* what the call returned or raised
    \* ---- suggest_times (mock_tools.py) ----
    sg_pc,       \* "idle", "done"
    sg_params,   \* the parsed inputs of the call
    free_blocks, \* the daily work-hour blocks inside the window
    refined,     \* the free segments long enough for the meeting
    proposals,   \* the candidates returned
    \* ---- the busy-subtraction loop of suggest_times, on its own ----
    sub_pc,      \* "input", "done"
    sub_block,   \* the free block (s, e)
    sub_busy,    \* the busy list
    segments,    \* the segments left of the block
    \* ---- /auth/google/start and /callback (google_oauth.py) ----
    state_file,  \* tokens/state.json: parsable or not, its dict, its length
    creds,       \* the save_creds calls made: whose file, for which state
    oa_pc,       \* position of each request in its handler
    oa_kind,     \* "start" or "callback" (or "none" before it arrives)
    oa_user,     \* start: the user_id parameter; callback: entry["user_id"]
    oa_state,    \* start: the state generated; callback: the state parameter
    oa_code,     \* callback: whether the code parameter is present
    oa_store,    \* the request's local variable store
    oa_result    \* what the request returned or raised

chatVars == <<pc, user_id, messages, first, tool_call, args, name, reply, error,
              events, tool_user>>

availVars == <<av_pc, av_params, now_utc, ws, we, av_result>>

createVars == <<ce_pc, ce_params, ce_now, g_calls, ce_result>>

suggestVars == <<sg_pc, sg_params, free_blocks, refined, proposals>>

subtractVars == <<sub_pc, sub_block, sub_busy, segments>>

oauthVars == <<state_file, creds, oa_pc, oa_kind, oa_user, oa_state, oa_code,
               oa_store, oa_result>>

vars == <<chatVars, availVars, createVars, suggestVars, subtractVars, oauthVars>>

\* What each component leaves alone.
notChat == <<availVars, createVars, suggestVars, subtractVars, oauthVars>>
notAvail == <<chatVars, createVars, suggestVars, subtractVars, oauthVars>>
notCreate == <<chatVars, availVars, suggestVars, subtractVars, oauthVars>>
notSuggest == <<chatVars, availVars, createVars, subtractVars, oauthVars>>
notSubtract == <<chatVars, availVars, createVars, suggestVars, oauthVars>>
notOAuth == <<chatVars, availVars, createVars, suggestVars, subtractVars>>

(***************************************************************************)
(* The /chat handler.                                                      *)
(***************************************************************************)

\* Identities that can send a chat request (ChatIn.user_id).
Users == {"alice", "bob"}

\* Keys of TOOL_REGISTRY.
TOOL_REGISTRY == {"get_availability", "suggest_times", "create_event"}

\* Values the model can put under "tool": a registered name, some other
\* hashable value, or a JSON array/object (unhashable in Python).
ToolVals == TOOL_REGISTRY \cup {"cancel_event", "UNHASHABLE"}

\* Values the model can put under "args": a JSON object (with or without an
\* organizer_user_id entry), or a JSON value that is no object.
Absent == "ABSENT"
ArgsVals ==
    {[kind |-> k, organizer_user_id |-> Absent] : k \in {"array", "null"}}
    \cup {[kind |-> "object", organizer_user_id |-> o] : o \in Users \cup {Absent}}

\* JSON objects the model can emit: any combination of the two keys.
NoArgs == [kind |-> "null", organizer_user_id |-> Absent]
JsonObjects ==
    {[hasTool |-> TRUE, tool |-> t, hasArgs |-> TRUE, args |-> a] :
        a \in ArgsVals, t \in ToolVals}
    \cup {[hasTool |-> TRUE, tool |-> t, hasArgs |-> FALSE, args |-> NoArgs] :
        t \in {"get_availability", "cancel_event"}}
    \cup {[hasTool |-> FALSE, tool |-> "-", hasArgs |-> h, args |-> a] :
        h \in BOOLEAN, a \in {NoArgs, [kind |-> "object", organizer_user_id |-> Absent]}}
NoObject == [hasTool |-> FALSE, tool |-> "-", hasArgs |-> FALSE, args |-> NoArgs]

\* Texts the model can return.  pad: surrounded by whitespace.  body:
\*   "empty"      the empty string (also what call_llm makes of a missing content)
\*   "plain"      non-empty text that does not start with '{'
\*   "malformed"  starts with '{' but json.loads raises JSONDecodeError
\*   "json"       the serialisation of the JSON object obj
Texts ==
    {[pad |-> p, body |-> b, obj |-> NoObject] :
        p \in BOOLEAN, b \in {"empty", "plain", "malformed"}}
    \cup {[pad |-> p, body |-> "json", obj |-> o] : p \in BOOLEAN, o \in JsonObjects}

\* The empty string.
EmptyText == [pad |-> FALSE, body |-> "empty", obj |-> NoObject]
\* The placeholder "(no response)".
Placeholder == [pad |-> FALSE, body |-> "plain", obj |-> NoObject]
NoReply == [pad |-> FALSE, body |-> "NONE", obj |-> NoObject]

\* str.strip()
strip(text) == [text EXCEPT !.pad = FALSE]

\* str.startswith("{")
startswith_brace(text) == ~text.pad /\ text.body \in {"malformed", "json"}

\* Python truthiness of a str.
truthy(text) == ~(text.body = "empty" /\ ~text.pad)

NoCall == [some |-> FALSE, obj |-> NoObject]

\* maybe_parse_tool_call(text): the parsed object, or None.
maybe_parse_tool_call(text) ==
    LET t == strip(text) IN
    IF ~startswith_brace(t) THEN NoCall
    ELSE IF t.body = "json" /\ t.obj.hasTool /\ t.obj.hasArgs
         THEN [some |-> TRUE, obj |-> t.obj]
         ELSE NoCall

\* args.setdefault("organizer_user_id", body.user_id)
setdefault_organizer(a, u) ==
    IF a.organizer_user_id = Absent THEN [a EXCEPT !.organizer_user_id = u] ELSE a

\* params.get("organizer_user_id", "demo") in get_availability and create_event.
organizer_of(params) ==
    IF params.organizer_user_id = Absent THEN "demo" ELSE params.organizer_user_id

ChatInit ==
    /\ pc = "idle"
    /\ user_id = "-"
    /\ messages = <<>>
    /\ first = NoReply
    /\ tool_call = NoCall
    /\ args = NoArgs
    /\ name = "-"
    /\ reply = NoReply
    /\ error = "none"
    /\ events = <<>>
    /\ tool_user = "-"

\* POST /chat arrives: the conversation is built and the first model call made.
ChatStart ==
    /\ pc = "idle"
    /\ \E u \in Users : user_id' = u
    /\ messages' = <<"system", "user">>
    /\ events' = <<"model_call">>
    /\ pc' = "llm1"
    /\ UNCHANGED <<first, tool_call, args, name, reply, error, tool_user>>
    /\ UNCHANGED notChat

\* call_llm raises HTTPException (504 on ReadTimeout, 502 on another HTTPError).
LlmFail ==
    /\ pc \in {"llm1", "llm2"}
    /\ \E e \in {"model_timeout_504", "model_failed_502"} : error' = e
    /\ events' = Append(events, "model_error")
    /\ pc' = "done"
    /\ UNCHANGED <<user_id, messages, first, tool_call, args, name, reply, tool_user>>
    /\ UNCHANGED notChat

\* The first model call returns text t: lines 100-118 up to the await of the tool.
FirstReply ==
    /\ pc = "llm1"
    /\ \E t \in Texts :
        LET tc == maybe_parse_tool_call(t) IN
        /\ first' = t
        /\ tool_call' = tc
        /\ IF ~tc.some
           THEN \* return ChatOut(reply=first)
                /\ reply' = t
                /\ events' = Append(events, "final_reply")
                /\ pc' = "done"
                /\ UNCHANGED <<args, name, error, tool_user, messages>>
           ELSE IF tc.obj.args.kind # "object"
           THEN \* args.setdefault raises AttributeError outside any try
                /\ name' = tc.obj.tool
                /\ args' = tc.obj.args
                /\ error' = "internal_500"
                /\ events' = Append(events, "internal_error")
                /\ pc' = "done"
                /\ UNCHANGED <<reply, tool_user, messages>>
           ELSE IF tc.obj.tool = "UNHASHABLE"
           THEN \* TOOL_REGISTRY.get(name) raises TypeError outside any try
                /\ name' = tc.obj.tool
                /\ args' = setdefault_organizer(tc.obj.args, user_id)
                /\ error' = "internal_500"
                /\ events' = Append(events, "internal_error")
                /\ pc' = "done"
                /\ UNCHANGED <<reply, tool_user, messages>>
           ELSE IF tc.obj.tool \notin TOOL_REGISTRY
           THEN \* raise HTTPException(400, "Unknown tool")
                /\ name' = tc.obj.tool
                /\ args' = setdefault_organizer(tc.obj.args, user_id)
                /\ error' = "unknown_tool_400"
                /\ events' = Append(events, "unknown_tool_error")
                /\ pc' = "done"
                /\ UNCHANGED <<reply, tool_user, messages>>
           ELSE \* await func(args)
                /\ name' = tc.obj.tool
                /\ args' = setdefault_organizer(tc.obj.args, user_id)
                /\ tool_user' = IF tc.obj.tool = "suggest_times" THEN "-"
                                ELSE organizer_of(setdefault_organizer(tc.obj.args, user_id))
                /\ events' = Append(events, "tool_dispatch")
                /\ pc' = "tool"
                /\ UNCHANGED <<reply, error, messages>>
    /\ UNCHANGED user_id
    /\ UNCHANGED notChat

\* A handler that swallows the tool's exception and asks the model again.
ToolRaiseSwallowed ==
    /\ pc = "tool"
    /\ events' = Append(Append(events, "tool_error"), "model_call")
    /\ pc' = "llm2"
    /\ UNCHANGED <<user_id, messages, first, tool_call, args, name, reply, error, tool_user>>
    /\ UNCHANGED notChat

\* The tool raises: HTTPException(500, "Tool ... error").
ToolRaise ==
    /\ pc = "tool"
    /\ error' = "tool_error_500"
    /\ events' = Append(events, "tool_error")
    /\ pc' = "done"
    /\ UNCHANGED <<user_id, messages, first, tool_call, args, name, reply, tool_user>>
    /\ UNCHANGED notChat

\* The tool returns: its result is appended as an assistant turn and the model
\* is called again.
ToolReturn ==
    /\ pc = "tool"
    /\ messages' = Append(messages, "assistant")
    /\ events' = Append(events, "model_call")
    /\ pc' = "llm2"
    /\ UNCHANGED <<user_id, first, tool_call, args, name, reply, error, tool_user>>
    /\ UNCHANGED notChat

\* The second model call returns: ChatOut(reply=final or "(no response)").
FinalReply ==
    /\ pc = "llm2"
    /\ \E t \in Texts : reply' = IF truthy(t) THEN t ELSE Placeholder
    /\ events' = Append(events, "final_reply")
    /\ pc' = "done"
    /\ UNCHANGED <<user_id, messages, first, tool_call, args, name, error, tool_user>>
    /\ UNCHANGED notChat

ChatNext ==
    \/ ChatStart
    \/ LlmFail
    \/ FirstReply
    \/ ToolRaise
    \/ ToolReturn
    \/ FinalReply

(***************************************************************************)
(* Time.  An instant is an integer number of ticks.  A datetime is a wall   *)
(* clock reading with a UTC offset (aware) or without one (naive); the      *)
(* instant of an aware datetime is wall - off.  Zones have fixed offsets.   *)
(***************************************************************************)

\* Ticks in one day (the resolution of the model's clock).
DayTicks == 2

\* timedelta(days=7) and the divisor of delta_days // 7.
WeekDays == 7

Week == WeekDays * DayTicks

\* Largest wall-clock reading of a timestamp given to a tool.
MaxWall == 3

\* How many weeks "now" can lie after the timestamps given to a tool.
MaxPastWeeks == 2

Walls == 0 .. MaxWall
Nows == 0 .. (MaxPastWeeks * Week + MaxWall + 1)

\* ZoneInfo(tz_name): the zone's UTC offset in ticks.
ZoneNames == {"Etc/UTC", "Asia/Tokyo"}
ZoneInfo(tz_name) == IF tz_name = "Asia/Tokyo" THEN 1 ELSE 0

\* Timestamp strings a caller can pass: a missing value, text that is not
\* ISO 8601, or an ISO 8601 timestamp with or without a UTC offset.
NaiveStamps == {[kind |-> "iso", wall |-> w, aware |-> FALSE, off |-> 0] : w \in Walls}
AwareStamps == {[kind |-> "iso", wall |-> w, aware |-> TRUE, off |-> o] :
                    w \in Walls, o \in {0, 1}}
MissingStamp == [kind |-> "missing", wall |-> 0, aware |-> FALSE, off |-> 0]
GarbageStamp == [kind |-> "garbage", wall |-> 0, aware |-> FALSE, off |-> 0]
Stamps == NaiveStamps \cup AwareStamps \cup {MissingStamp, GarbageStamp}

NoTime == [wall |-> 0, aware |-> FALSE, off |-> 0]

\* dtparse.isoparse(s) of an ISO 8601 string.
isoparse(s) == [wall |-> s.wall, aware |-> s.aware, off |-> s.off]

\* if dt.tzinfo is None: dt = dt.replace(tzinfo=tz)
replace_tz_if_naive(dt, tz) ==
    IF dt.aware THEN dt ELSE [wall |-> dt.wall, aware |-> TRUE, off |-> tz]

\* dt.replace(tzinfo=tz) when naive, else dt.astimezone(tz)
coerce_to_tz(dt, tz) ==
    IF dt.aware THEN [wall |-> dt.wall - dt.off + tz, aware |-> TRUE, off |-> tz]
    ELSE [wall |-> dt.wall, aware |-> TRUE, off |-> tz]

\* The instant of an aware datetime.
Instant(dt) == dt.wall - dt.off

\* dt + timedelta(days=n)
plus_days(dt, n) == [dt EXCEPT !.wall = dt.wall + n * DayTicks]

(***************************************************************************)
(* get_availability.                                                       *)
(***************************************************************************)

NoParams == [organizer_user_id |-> "-", organizer_tz |-> "Etc/UTC",
             first_stamp |-> MissingStamp, second_stamp |-> MissingStamp,
             connected |-> FALSE]

AvailIdle ==
    /\ av_pc = "idle"
    /\ av_params = NoParams
    /\ now_utc = 0
    /\ ws = NoTime
    /\ we = NoTime
    /\ av_result = [status |-> "none", window_start |-> NoTime, window_end |-> NoTime]

AvailRaise(e) == [status |-> e, window_start |-> NoTime, window_end |-> NoTime]

\* A loop test that lets a window ending exactly now through.
window_elapsed_strict(end_dt, now) == Instant(end_dt) < now

\* The test of "while we <= now_utc".
window_elapsed(end_dt, now) == Instant(end_dt) <= now

\* The call up to the while loop: lines 55-73.  first_stamp is
\* params["window_start"], second_stamp is params["window_end"]; connected
\* tells whether the organizer has stored Google credentials.
AvailCall ==
    /\ av_pc = "idle"
    /\ \E u \in Users, z \in ZoneNames, s \in Stamps, e \in Stamps,
          c \in BOOLEAN, n \in Nows :
        /\ av_params' = [organizer_user_id |-> u, organizer_tz |-> z,
                         first_stamp |-> s, second_stamp |-> e, connected |-> c]
        /\ IF s.kind = "missing" \/ e.kind = "missing"
           THEN \* params["window_start"] raises KeyError
                /\ av_result' = AvailRaise("KeyError")
                /\ av_pc' = "done"
                /\ UNCHANGED <<ws, we, now_utc>>
           ELSE IF s.kind = "garbage" \/ e.kind = "garbage"
           THEN /\ av_result' = AvailRaise("ValueError")
                /\ av_pc' = "done"
                /\ UNCHANGED <<ws, we, now_utc>>
           ELSE /\ ws' = replace_tz_if_naive(isoparse(s), ZoneInfo(z))
                /\ we' = replace_tz_if_naive(isoparse(e), ZoneInfo(z))
                /\ now_utc' = n
                /\ av_pc' = "loop"
                /\ UNCHANGED av_result
    /\ UNCHANGED notAvail

\* One iteration of the roll-forward loop: lines 74-76.
AvailRoll ==
    /\ av_pc = "loop"
    /\ window_elapsed(we, now_utc)
    /\ ws' = plus_days(ws, WeekDays)
    /\ we' = plus_days(we, WeekDays)
    /\ UNCHANGED <<av_pc, av_params, now_utc, av_result>>
    /\ UNCHANGED notAvail

\* The loop ends; freebusy is queried and the window returned: lines 78-92.
AvailReturn ==
    /\ av_pc = "loop"
    /\ ~window_elapsed(we, now_utc)
    /\ av_result' = IF av_params.connected
                    THEN [status |-> "ok", window_start |-> ws, window_end |-> we]
                    ELSE AvailRaise("NotConnected")
    /\ av_pc' = "done"
    /\ UNCHANGED <<av_params, now_utc, ws, we>>
    /\ UNCHANGED notAvail

AvailNext == AvailCall \/ AvailRoll \/ AvailReturn

(***************************************************************************)
(* create_event.                                                           *)
(***************************************************************************)

CreateIdle ==
    /\ ce_pc = "idle"
    /\ ce_params = NoParams
    /\ ce_now = 0
    /\ g_calls = <<>>
    /\ ce_result = [status |-> "none", start_time |-> NoTime, end_time |-> NoTime]

CreateRaise(e) == [status |-> e, start_time |-> NoTime, end_time |-> NoTime]

\* A week count rounded up instead of floor-plus-one.
weeks_to_jump_ceil(end_dt, now) ==
    LET delta_days == (now - Instant(end_dt)) \div DayTicks IN
    (delta_days + WeekDays - 1) \div WeekDays

\* weeks = (delta_days // 7) + 1, with delta_days = (now_local - end_dt).days
weeks_to_jump(end_dt, now) ==
    LET delta_days == (now - Instant(end_dt)) \div DayTicks IN
    (delta_days \div WeekDays) + 1

\* Lines 130-137: the slot after the past-slot roll-forward.
roll_forward(start_dt, end_dt, now) ==
    IF Instant(end_dt) <= now
    THEN LET jump == WeekDays * weeks_to_jump(end_dt, now) IN
         [start |-> plus_days(start_dt, jump), end |-> plus_days(end_dt, jump)]
    ELSE [start |-> start_dt, end |-> end_dt]

\* A check that lets an empty slot (end == start) through.
end_before_start(start_dt, end_dt) == Instant(end_dt) < Instant(start_dt)

\* Line 139: if end_dt <= start_dt: raise ValueError
end_not_after_start(start_dt, end_dt) == Instant(end_dt) <= Instant(start_dt)

\* The whole of create_event.  first_stamp is params.get("start_time"),
\* second_stamp is params.get("end_time"); connected tells whether the
\* organizer has stored Google credentials (without them g_create raises).
\* The attendees, title and zone name are taken to be well formed.
CreateEvent ==
    /\ ce_pc = "idle"
    /\ \E u \in Users, z \in ZoneNames, s \in Stamps, e \in Stamps,
          c \in BOOLEAN, n \in Nows :
        LET tz == ZoneInfo(z)
            start_dt == coerce_to_tz(isoparse(s), tz)
            end_dt == coerce_to_tz(isoparse(e), tz)
            slot == roll_forward(start_dt, end_dt, n)
        IN
        /\ ce_params' = [organizer_user_id |-> u, organizer_tz |-> z,
                         first_stamp |-> s, second_stamp |-> e, connected |-> c]
        /\ ce_now' = n
        /\ IF s.kind = "missing" \/ e.kind = "missing"
           THEN ce_result' = CreateRaise("ValueError") /\ UNCHANGED g_calls
           ELSE IF s.kind = "garbage" \/ e.kind = "garbage"
           THEN ce_result' = CreateRaise("ValueError") /\ UNCHANGED g_calls
           ELSE IF end_not_after_start(slot.start, slot.end)
           THEN ce_result' = CreateRaise("ValueError") /\ UNCHANGED g_calls
           ELSE /\ g_calls' = Append(g_calls,
                        [user_id |-> u, start |-> slot.start, end |-> slot.end])
                /\ ce_result' =
                     IF c THEN [status |-> "ok", start_time |-> slot.start,
                                end_time |-> slot.end]
                     ELSE CreateRaise("NotConnected")
    /\ ce_pc' = "done"
    /\ UNCHANGED notCreate

CreateNext == CreateEvent


(***************************************************************************)
(* suggest_times.  Its datetimes are instants in ticks, read on the wall    *)
(* clock of the window start's zone (the zone day_cursor lives in).  A      *)
(* whole second is SubSecond ticks; work hours and the duration are whole   *)
(* numbers of seconds (the model's minute is one second long).             *)
(***************************************************************************)

\* Ticks in a whole second: the part of a timestamp iso() keeps.
SubSecond == 2

\* Whole seconds in a day.
DaySeconds == 3

\* Days after the first one the window can reach into.
MaxDays == 4

\* Largest duration_minutes.
MaxDuration == 2

\* Latest tick a busy interval can start at, and its greatest length.
MaxBusyStart == 6
MaxBusyLen == 2

\* Most busy intervals in the list.
MaxBusy == 2

\* len(proposals) >= 3
MAX_PROPOSALS == 3

SgDay == DaySeconds * SubSecond

\* iso(dt): dt.replace(microsecond=0).isoformat(), read back by isoparse.
iso(t) == t - (t % SubSecond)

\* dt.replace(hour=h, minute=m, second=0, microsecond=0), h:m given in seconds
\* since midnight.
replace_time(t, hm) == (t - (t % SgDay)) + hm * SubSecond

\* dt.strftime("%a"); day 0 is a Monday.
WeekdayNames == <<"Mon", "Tue", "Wed", "Thu", "Fri", "Sat", "Sun">>
strftime_a(t) == WeekdayNames[((t \div SgDay) % 7) + 1]

Max2(a, b) == IF a >= b THEN a ELSE b
Min2(a, b) == IF a <= b THEN a ELSE b

\* clamp_to_window: the clamped pair, or nothing.
clamp_to_window(start, end, wstart, wend) ==
    LET s0 == Max2(start, wstart)
        e0 == Min2(end, wend)
    IN IF e0 > s0 THEN <<[start |-> s0, end |-> e0]>> ELSE <<>>

\* Lines 41-52: the while loop that builds free_blocks, from day_cursor on.
RECURSIVE build_free_blocks(_, _, _)
build_free_blocks(day_cursor, p, acc) ==
    IF ~(day_cursor < p.wend) THEN acc
    ELSE
        LET day_start == day_cursor
            day_end == replace_time(day_cursor, p.hend)
            maybe == IF day_end > day_start
                     THEN clamp_to_window(day_start, day_end, p.wstart, p.wend)
                     ELSE <<>>
            keep == /\ maybe # <<>>
                    /\ (p.days = {} \/ strftime_a(maybe[1].start) \in p.days)
            acc2 == IF keep
                    THEN Append(acc, [start |-> iso(maybe[1].start),
                                      end |-> iso(maybe[1].end)])
                    ELSE acc
        IN build_free_blocks(replace_time(day_cursor + SgDay, p.hstart), p, acc2)

\* The same loop body without the right remainder (be, xe).
RECURSIVE subtract_one_no_right(_, _)
subtract_one_no_right(segs, b) ==
    IF segs = <<>> THEN <<>>
    ELSE
        LET x == Head(segs)
            rest == subtract_one_no_right(Tail(segs), b)
            left == IF x.start < b.start
                    THEN <<[start |-> x.start, end |-> b.start]>> ELSE <<>>
        IN IF x.end <= b.start \/ b.end <= x.start
           THEN <<x>> \o rest
           ELSE left \o rest

\* Lines 70-74: one busy interval taken out of a list of segments.
RECURSIVE subtract_one(_, _)
subtract_one(segs, b) ==
    IF segs = <<>> THEN <<>>
    ELSE
        LET x == Head(segs)
            rest == subtract_one(Tail(segs), b)
            left == IF x.start < b.start
                    THEN <<[start |-> x.start, end |-> b.start]>> ELSE <<>>
            right == IF b.end < x.end
                     THEN <<[start |-> b.end, end |-> x.end]>> ELSE <<>>
        IN IF x.end <= b.start \/ b.end <= x.start
           THEN <<x>> \o rest
           ELSE left \o right \o rest

\* Lines 67-75: every busy interval, in list order, taken out of one block.
RECURSIVE subtract_all(_, _)
subtract_all(segs, busy) ==
    IF busy = <<>> THEN segs
    ELSE subtract_all(subtract_one(segs, Head(busy)), Tail(busy))

subtract_busy(block, busy) == subtract_all(<<block>>, busy)

\* Lines 76-78: the segments of a block that can hold the meeting.
RECURSIVE long_enough(_, _)
long_enough(segs, duration) ==
    IF segs = <<>> THEN <<>>
    ELSE LET x == Head(segs) IN
         (IF (x.end - x.start) >= duration
          THEN <<[start |-> iso(x.start), end |-> iso(x.end)]>> ELSE <<>>)
         \o long_enough(Tail(segs), duration)

\* Lines 64-78: the refined list of all blocks.
RECURSIVE refine(_, _, _)
refine(blocks, busy, duration) ==
    IF blocks = <<>> THEN <<>>
    ELSE long_enough(subtract_busy(Head(blocks), busy), duration)
         \o refine(Tail(blocks), busy, duration)

\* Lines 81-88: the candidates, at most MAX_PROPOSALS of them.
RECURSIVE propose(_, _, _)
propose(blocks, duration, acc) ==
    IF blocks = <<>> THEN acc
    ELSE
        LET start_dt == Head(blocks).start
            end_dt == start_dt + duration
            acc2 == IF end_dt <= Head(blocks).end
                    THEN Append(acc, [start |-> iso(start_dt), end |-> iso(end_dt)])
                    ELSE acc
        IN IF Len(acc2) >= MAX_PROPOSALS THEN acc2
           ELSE propose(Tail(blocks), duration, acc2)

\* timedelta(minutes=duration_minutes)
timedelta_minutes(m) == m * SubSecond

\* Busy intervals a caller can pass: any start, and an end before, at or
\* after it.
BusyIntervals ==
    {[start |-> bs, end |-> bs + l] : bs \in 0 .. MaxBusyStart, l \in -1 .. MaxBusyLen}

RECURSIVE SeqsUpTo(_, _)
SeqsUpTo(S, n) ==
    IF n = 0 THEN {<<>>}
    ELSE LET shorter == SeqsUpTo(S, n - 1) IN
         shorter \cup {Append(q, x) : q \in {r \in shorter : Len(r) = n - 1}, x \in S}

WindowStarts == 0 .. SubSecond
WindowEnds == {0} \cup {d * SgDay + r : d \in {1, MaxDays}, r \in {0, 1}}
DayFilters == {{}, {"Mon"}, {"Tue", "Wed"}}

NoSuggestParams == [wstart |-> 0, wend |-> 0, hstart |-> 0, hend |-> 0,
                    days |-> {}, duration_minutes |-> 0, busy |-> <<>>]

SuggestIdle ==
    /\ sg_pc = "idle"
    /\ sg_params = NoSuggestParams
    /\ free_blocks = <<>>
    /\ refined = <<>>
    /\ proposals = <<>>

\* The whole of suggest_times on parsed inputs.
SuggestTimes ==
    /\ sg_pc = "idle"
    /\ \E ws0 \in WindowStarts, we0 \in WindowEnds,
          hs \in 0 .. (DaySeconds - 1), he \in 0 .. (DaySeconds - 1),
          ds \in DayFilters, dm \in 1 .. MaxDuration,
          bl \in SeqsUpTo(BusyIntervals, MaxBusy) :
        LET p == [wstart |-> ws0, wend |-> we0, hstart |-> hs, hend |-> he,
                  days |-> ds, duration_minutes |-> dm, busy |-> bl]
            duration == timedelta_minutes(dm)
            blocks == build_free_blocks(replace_time(ws0, hs), p, <<>>)
            ref == refine(blocks, bl, duration)
        IN
        /\ sg_params' = p
        /\ free_blocks' = blocks
        /\ refined' = ref
        /\ proposals' = propose(ref, duration, <<>>)
    /\ sg_pc' = "done"
    /\ UNCHANGED notSuggest

SuggestNext == SuggestTimes

(***************************************************************************)
(* The busy-subtraction loop as a function of one block and a busy list.   *)
(***************************************************************************)

\* Largest tick of a block or busy boundary.
MaxTick == 4

\* Most busy intervals in the list.
MaxObstacles == 2

SubtractIdle ==
    /\ sub_pc = "input"
    /\ sub_block = [start |-> 0, end |-> 0]
    /\ sub_busy = <<>>
    /\ segments = <<>>

\* The loop runs on a block (start < end, as clamp_to_window leaves it) and
\* any list of busy pairs.
SubtractBusy ==
    /\ sub_pc = "input"
    /\ \E s \in 0 .. MaxTick, e \in 0 .. MaxTick,
          bl \in SeqsUpTo({[start |-> a, end |-> b] : a \in 0 .. MaxTick, b \in 0 .. MaxTick},
                          MaxObstacles) :
        /\ s < e
        /\ sub_block' = [start |-> s, end |-> e]
        /\ sub_busy' = bl
        /\ segments' = subtract_busy([start |-> s, end |-> e], bl)
    /\ sub_pc' = "done"
    /\ UNCHANGED notSubtract

SubtractNext == SubtractBusy

(***************************************************************************)
(* The OAuth state table.  /auth/google/start and /auth/google/callback    *)
(* are plain def endpoints, which the server runs on worker threads, so    *)
(* the steps of different requests interleave.  A step boundary is placed  *)
(* at each access to tokens/state.json.  The OAuth environment variables   *)
(* are taken to be set (build_flow does not raise).                        *)
(***************************************************************************)

\* Requests in flight at once; request r is served by its own thread.
MaxRequests == 3

Requests == 1 .. MaxRequests

\* The state parameter left out of the callback URL (or empty).
MissingState == 0

\* flow.authorization_url generates a fresh random state for every call: the
\* state of request r is r.
generate_state(r) == r

\* len(user_id)
UserLen(u) == IF u = "alice" THEN 5 ELSE 3

\* A dict {state: {"user_id": user_id}} is the set of its items.
EmptyDict == {}
dict_get(store, s) == {e \in store : e.state = s}
dict_set(store, s, u) ==
    {e \in store : e.state # s} \cup {[state |-> s, user_id |-> u]}
dict_pop(store, s) == {e \in store : e.state # s}

\* Characters json.dump writes for a dict: "{}" around the items, each item
\* a 30-character key in quotes, ": ", {"user_id": "..."}, and ", " between
\* items.
RECURSIVE ItemsLen(_)
ItemsLen(store) ==
    IF store = {} THEN 0
    ELSE LET e == CHOOSE x \in store : TRUE
         IN (49 + UserLen(e.user_id)) + ItemsLen(store \ {e})

JsonLen(store) ==
    2 + ItemsLen(store)
      + (IF store = {} THEN 0 ELSE 2 * (Cardinality(store) - 1))

\* The file after the module is imported: "{}".
FreshFile == [ok |-> TRUE, data |-> EmptyDict, len |-> JsonLen(EmptyDict)]

\* state_store_get: the dict in the file, or {} when it does not parse.
state_store_get(file) == IF file.ok THEN file.data ELSE EmptyDict

\* open(STATE_FILE, "w") truncates the file to nothing.
open_w(file) == [ok |-> FALSE, data |-> EmptyDict, len |-> 0]

\* json.dump(data, f) and the close: the text goes in at offset 0 of whatever
\* the file now holds.  Text that another writer put there since the open
\* keeps its tail when it is longer, and the file no longer parses.
json_dump(file, data) ==
    IF JsonLen(data) >= file.len
    THEN [ok |-> TRUE, data |-> data, len |-> JsonLen(data)]
    ELSE [ok |-> FALSE, data |-> EmptyDict, len |-> file.len]

OAuthIdle ==
    /\ state_file = FreshFile
    /\ creds = {}
    /\ oa_pc = [r \in Requests |-> "idle"]
    /\ oa_kind = [r \in Requests |-> "none"]
    /\ oa_user = [r \in Requests |-> "-"]
    /\ oa_state = [r \in Requests |-> MissingState]
    /\ oa_code = [r \in Requests |-> FALSE]
    /\ oa_store = [r \in Requests |-> EmptyDict]
    /\ oa_result = [r \in Requests |-> "none"]

\* start, lines 67-74: the flow is built and the state generated.
StartBegin(r) ==
    /\ oa_pc[r] = "idle"
    /\ \E u \in Users :
        oa_user' = [oa_user EXCEPT ![r] = u]
    /\ oa_kind' = [oa_kind EXCEPT ![r] = "start"]
    /\ oa_state' = [oa_state EXCEPT ![r] = generate_state(r)]
    /\ oa_pc' = [oa_pc EXCEPT ![r] = "start_get"]
    /\ UNCHANGED <<state_file, creds, oa_code, oa_store, oa_result>>
    /\ UNCHANGED notOAuth

\* start, lines 75-76: store = state_store_get(); store[state] = {...}.
StartGet(r) ==
    /\ oa_pc[r] = "start_get"
    /\ oa_store' = [oa_store EXCEPT
           ![r] = dict_set(state_store_get(state_file), oa_state[r], oa_user[r])]
    /\ oa_pc' = [oa_pc EXCEPT ![r] = "start_open"]
    /\ UNCHANGED <<state_file, creds, oa_kind, oa_user, oa_state, oa_code, oa_result>>
    /\ UNCHANGED notOAuth

\* start, line 77: state_store_set opens the file for writing.
StartOpen(r) ==
    /\ oa_pc[r] = "start_open"
    /\ state_file' = open_w(state_file)
    /\ oa_pc' = [oa_pc EXCEPT ![r] = "start_dump"]
    /\ UNCHANGED <<creds, oa_kind, oa_user, oa_state, oa_code, oa_store, oa_result>>
    /\ UNCHANGED notOAuth

\* start, lines 77-78: state_store_set writes the dict; the state is returned.
StartDump(r) ==
    /\ oa_pc[r] = "start_dump"
    /\ state_file' = json_dump(state_file, oa_store[r])
    /\ oa_pc' = [oa_pc EXCEPT ![r] = "done"]
    /\ oa_result' = [oa_result EXCEPT ![r] = "ok"]
    /\ UNCHANGED <<creds, oa_kind, oa_user, oa_state, oa_code, oa_store>>
    /\ UNCHANGED notOAuth

\* callback, lines 81-84: any state (issued or not, or none) and any code.
CallbackBegin(r) ==
    /\ oa_pc[r] = "idle"
    /\ \E s \in Requests \cup {MissingState}, c \in BOOLEAN :
        /\ oa_state' = [oa_state EXCEPT ![r] = s]
        /\ oa_code' = [oa_code EXCEPT ![r] = c]
        /\ IF s = MissingState
           THEN /\ oa_pc' = [oa_pc EXCEPT ![r] = "done"]
                /\ oa_result' = [oa_result EXCEPT ![r] = "400_missing_state"]
           ELSE /\ oa_pc' = [oa_pc EXCEPT ![r] = "cb_get"]
                /\ UNCHANGED oa_result
    /\ oa_kind' = [oa_kind EXCEPT ![r] = "callback"]
    /\ UNCHANGED <<state_file, creds, oa_user, oa_store>>
    /\ UNCHANGED notOAuth

\* callback, lines 85-96: the entry is looked up; no entry and no code are
\* both answered with 400.
CallbackGet(r) ==
    /\ oa_pc[r] = "cb_get"
    /\ LET store == state_store_get(state_file)
           entry == dict_get(store, oa_state[r])
       IN
       /\ oa_store' = [oa_store EXCEPT ![r] = store]
       /\ IF entry = {}
          THEN /\ oa_pc' = [oa_pc EXCEPT ![r] = "done"]
               /\ oa_result' = [oa_result EXCEPT ![r] = "400_unknown_state"]
               /\ UNCHANGED oa_user
          ELSE /\ oa_user' = [oa_user EXCEPT
                      ![r] = (CHOOSE e \in entry : TRUE).user_id]
               /\ IF ~oa_code[r]
                  THEN /\ oa_pc' = [oa_pc EXCEPT ![r] = "done"]
                       /\ oa_result' = [oa_result EXCEPT ![r] = "400_oauth_error"]
                  ELSE /\ oa_pc' = [oa_pc EXCEPT ![r] = "cb_fetch"]
                       /\ UNCHANGED oa_result
    /\ UNCHANGED <<state_file, creds, oa_kind, oa_state, oa_code>>
    /\ UNCHANGED notOAuth

\* callback, line 97: Google refuses the code and fetch_token raises.
CallbackFetchFail(r) ==
    /\ oa_pc[r] = "cb_fetch"
    /\ oa_pc' = [oa_pc EXCEPT ![r] = "done"]
    /\ oa_result' = [oa_result EXCEPT ![r] = "500_fetch_token"]
    /\ UNCHANGED <<state_file, creds, oa_kind, oa_user, oa_state, oa_code, oa_store>>
    /\ UNCHANGED notOAuth

\* callback, lines 97-99: the token is fetched and save_creds(user_id, creds)
\* writes the user's credential file.
CallbackSave(r) ==
    /\ oa_pc[r] = "cb_fetch"
    /\ creds' = creds \cup {[user_id |-> oa_user[r], state |-> oa_state[r]]}
    /\ oa_pc' = [oa_pc EXCEPT ![r] = "cb_open"]
    /\ UNCHANGED <<state_file, oa_kind, oa_user, oa_state, oa_code, oa_store, oa_result>>
    /\ UNCHANGED notOAuth

\* callback, lines 102-103: the state is popped from the local dict and
\* state_store_set opens the file for writing.
CallbackOpen(r) ==
    /\ oa_pc[r] = "cb_open"
    /\ oa_store' = [oa_store EXCEPT ![r] = dict_pop(oa_store[r], oa_state[r])]
    /\ state_file' = open_w(state_file)
    /\ oa_pc' = [oa_pc EXCEPT ![r] = "cb_dump"]
    /\ UNCHANGED <<creds, oa_kind, oa_user, oa_state, oa_code, oa_result>>
    /\ UNCHANGED notOAuth

\* callback, lines 103-105: state_store_set writes the dict; "ok" is returned.
CallbackDump(r) ==
    /\ oa_pc[r] = "cb_dump"
    /\ state_file' = json_dump(state_file, oa_store[r])
    /\ oa_pc' = [oa_pc EXCEPT ![r] = "done"]
    /\ oa_result' = [oa_result EXCEPT ![r] = "ok"]
    /\ UNCHANGED <<creds, oa_kind, oa_user, oa_state, oa_code, oa_store>>
    /\ UNCHANGED notOAuth

OAuthNext ==
    \E r \in Requests :
        \/ StartBegin(r)
        \/ StartGet(r)
        \/ StartOpen(r)
        \/ StartDump(r)
        \/ CallbackBegin(r)
        \/ CallbackGet(r)
        \/ CallbackFetchFail(r)
        \/ CallbackSave(r)
        \/ CallbackOpen(r)
        \/ CallbackDump(r)

(***************************************************************************)
(* Specifications.                                                         *)
(***************************************************************************)

\* No request has arrived and no tool has been called.
Init ==
    ChatInit /\ AvailIdle /\ CreateIdle /\ SuggestIdle /\ SubtractIdle /\ OAuthIdle

SpecChat == Init /\ [][ChatNext]_vars

SpecAvail == Init /\ [][AvailNext]_vars

SpecCreate == Init /\ [][CreateNext]_vars

SpecSuggest == Init /\ [][SuggestNext]_vars

SpecSubtract == Init /\ [][SubtractNext]_vars

SpecOAuth == Init /\ [][OAuthNext]_vars

(***************************************************************************)
(* Claims about the /chat handler.                                         *)
(***************************************************************************)

\* What the first claim calls a tool call: after trimming, the text starts
\* with '{', parses as a JSON object, has a "tool" key with a known name and
\* an "args" key whose value is a JSON object.
ClaimedToolCall(text) ==
    LET t == strip(text) IN
    /\ startswith_brace(t)
    /\ t.body = "json"
    /\ t.obj.hasTool /\ t.obj.tool \in TOOL_REGISTRY
    /\ t.obj.hasArgs /\ t.obj.args.kind = "object"

Contains(seq, x) == \E i \in 1..Len(seq) : seq[i] = x

FirstReplyHandled == pc \in {"tool", "llm2", "done"} /\ first # NoReply

\* C1: a first model reply is treated as a tool call if and only if it
\* trims to a JSON object with a known "tool" name and an object "args";
\* every other reply is returned as the final reply, with no tool dispatched
\* and no error raised.
C1_ToolCallDetection ==
    FirstReplyHandled =>
        /\ tool_call.some <=> ClaimedToolCall(first)
        /\ ~ClaimedToolCall(first) =>
              /\ reply = first
              /\ error = "none"
              /\ ~Contains(events, "tool_dispatch")

\* C2: whenever a tool is dispatched, the args handed to it carry the
\* organizer identity of the request, whatever the model put in args, and the
\* tool acts for that identity.
C2_OrganizerInjection ==
    Contains(events, "tool_dispatch") =>
        /\ args.organizer_user_id = user_id
        /\ name # "suggest_times" => tool_user = user_id

\* The four event sequences the third claim allows.
ClaimedSequences ==
    { <<"model_call", "final_reply">>,
      <<"model_call", "unknown_tool_error">>,
      <<"model_call", "tool_dispatch", "tool_error">>,
      <<"model_call", "tool_dispatch", "model_call", "final_reply">> }

\* The sequences the handler can follow: the four above, a failed model call
\* (first or second), and an unhandled exception before any dispatch.
HandlerSequences ==
    ClaimedSequences \cup
    { <<"model_call", "model_error">>,
      <<"model_call", "tool_dispatch", "model_call", "model_error">>,
      <<"model_call", "internal_error">> }

IsPrefix(s, t) == Len(s) <= Len(t) /\ \A i \in 1..Len(s) : s[i] = t[i]

Count(seq, x) == Cardinality({i \in 1..Len(seq) : seq[i] = x})

\* C3 as stated: every finished request followed one of the four sequences.
C3_FourSequencesOnly == pc = "done" => events \in ClaimedSequences

\* C3 (amended): every request follows one of the handler's seven sequences
\* (the four claimed ones, a model failure on the first or the second call,
\* or an unhandled exception before dispatch); the model is called at most
\* twice, a tool is dispatched at most once, the second model call comes
\* only right after a dispatch that did not fail, and a request that ended
\* in an error has no reply text.
C3_SingleRoundTrip ==
    /\ \E s \in HandlerSequences : IsPrefix(events, s)
    /\ pc = "done" => events \in HandlerSequences
    /\ Count(events, "model_call") <= 2
    /\ Count(events, "tool_dispatch") <= 1
    /\ Count(events, "model_call") = 2 =>
          /\ Contains(events, "tool_dispatch")
          /\ ~Contains(events, "tool_error")
          /\ ~Contains(events, "unknown_tool_error")
    /\ error # "none" => pc = "done" /\ reply = NoReply
    /\ reply # NoReply => pc = "done" /\ error = "none"

\* A request that went through the whole round trip and got its reply.
C3_Witness ==
    /\ pc = "done"
    /\ events = <<"model_call", "tool_dispatch", "model_call", "final_reply">>
    /\ messages = <<"system", "user", "assistant">>

\* C4: a request that completes without an error never returns the empty
\* string, on either terminal path.
C4_NonEmptyReply == pc = "done" /\ error = "none" => reply # EmptyText

(***************************************************************************)
(* Claims about get_availability.                                          *)
(***************************************************************************)

AvailParsable ==
    av_params.first_stamp.kind = "iso" /\ av_params.second_stamp.kind = "iso"

\* The window as parsed, before any roll-forward.
AvailParsedStart ==
    replace_tz_if_naive(isoparse(av_params.first_stamp), ZoneInfo(av_params.organizer_tz))
AvailParsedEnd ==
    replace_tz_if_naive(isoparse(av_params.second_stamp), ZoneInfo(av_params.organizer_tz))

\* Whole weeks the window end has been moved by so far.
AvailWeeks == (we.wall - AvailParsedEnd.wall) \div Week

\* C8: for every parsable window and every now, the window get_availability
\* ends with has window_end > now; both boundaries are shifted by the same
\* k*7 days (offsets untouched), where k is the least k >= 0 with
\* window_end + k*7 days > now; the loop never rolls past that k, so it ends.
C8_FutureWindow ==
    (av_pc \in {"loop", "done"} /\ AvailParsable) =>
        /\ AvailWeeks >= 0
        /\ we.wall = AvailParsedEnd.wall + AvailWeeks * Week
        /\ ws.wall = AvailParsedStart.wall + AvailWeeks * Week
        /\ we.off = AvailParsedEnd.off /\ ws.off = AvailParsedStart.off
        /\ \A j \in 0 .. (AvailWeeks - 1) : Instant(AvailParsedEnd) + j * Week <= now_utc
        /\ av_pc = "done" =>
              /\ Instant(we) > now_utc
              /\ av_result.status \in {"ok", "NotConnected"}
              /\ av_result.status = "ok" =>
                    av_result.window_start = ws /\ av_result.window_end = we

\* A window that had elapsed two weeks before now was returned, rolled.
C8_Witness ==
    /\ av_pc = "done" /\ av_result.status = "ok"
    /\ AvailWeeks = 2
    /\ Instant(av_result.window_start) < Instant(av_result.window_end)

(***************************************************************************)
(* Claims about create_event.                                              *)
(***************************************************************************)

CreateParsable ==
    ce_params.first_stamp.kind = "iso" /\ ce_params.second_stamp.kind = "iso"

\* The slot as parsed and coerced to the organizer's zone.
CreateParsedStart ==
    coerce_to_tz(isoparse(ce_params.first_stamp), ZoneInfo(ce_params.organizer_tz))
CreateParsedEnd ==
    coerce_to_tz(isoparse(ce_params.second_stamp), ZoneInfo(ce_params.organizer_tz))

C10_CommitValidation ==
    /\ \A i \in 1 .. Len(g_calls) : Instant(g_calls[i].end) > Instant(g_calls[i].start)
    /\ (/\ ce_pc = "done"
        /\ \/ ~CreateParsable
           \/ Instant(CreateParsedEnd) <= Instant(CreateParsedStart))
       => (ce_result.status = "ValueError" /\ g_calls = <<>>)
    /\ ce_result.status = "ok" => Len(g_calls) = 1

\* A past slot whose end reads later than its start on the wall clock but is
\* not after it once both are in the organizer's zone was rejected.
C10_Witness ==
    /\ ce_pc = "done"
    /\ CreateParsable
    /\ ce_params.first_stamp.wall < ce_params.second_stamp.wall
    /\ Instant(CreateParsedEnd) <= Instant(CreateParsedStart)
    /\ Instant(CreateParsedEnd) <= ce_now
    /\ ce_result.status = "ValueError"
    /\ g_calls = <<>>

(***************************************************************************)
(* Claims about suggest_times.                                             *)
(***************************************************************************)

\* The ticks of the half-open range [start, end).
TicksOf(x) == {t \in x.start .. (x.end - 1) : TRUE}

SeqRange(q) == {q[i] : i \in 1 .. Len(q)}

\* Every busy interval is a proper interval: it ends after it starts.
ProperIntervals(busy) == \A b \in SeqRange(busy) : b.start < b.end

\* C5: for a block F and any list O of busy intervals, in any order and
\* overlapping or not, the segments the subtraction loop leaves overlap no
\* interval of O, do not overlap each other, and cover exactly F minus the
\* union of O.
C5_SubtractionCorrect ==
    sub_pc = "done" =>
        /\ \A x \in SeqRange(segments), b \in SeqRange(sub_busy) :
              TicksOf(x) \cap TicksOf(b) = {}
        /\ \A i, j \in 1 .. Len(segments) :
              i < j => TicksOf(segments[i]) \cap TicksOf(segments[j]) = {}
        /\ UNION {TicksOf(x) : x \in SeqRange(segments)}
              = TicksOf(sub_block) \ UNION {TicksOf(b) : b \in SeqRange(sub_busy)}

\* When every busy interval ends after it starts, C5 holds, and the segments
\* are the maximal free runs of the block in chronological order.
C5_OnProperIntervals ==
    (sub_pc = "done" /\ ProperIntervals(sub_busy)) =>
        /\ C5_SubtractionCorrect
        /\ \A x \in SeqRange(segments) : x.start < x.end
        /\ \A i, j \in 1 .. Len(segments) :
              i < j => segments[i].end < segments[j].start

\* Two overlapping busy intervals, the later one first, cut a block in two.
C5_ProperCase ==
    /\ sub_pc = "done"
    /\ Len(sub_busy) = 2
    /\ ProperIntervals(sub_busy)
    /\ sub_busy[1].start > sub_busy[2].start
    /\ sub_busy[2].end > sub_busy[1].start
    /\ Len(segments) = 2

SgDuration == timedelta_minutes(sg_params.duration_minutes)

\* The candidate lies in the work hours of its local day.
InWorkHours(c) ==
    LET midnight == c.start - (c.start % SgDay) IN
    /\ midnight + sg_params.hstart * SubSecond <= c.start
    /\ c.end <= midnight + sg_params.hend * SubSecond

OnAllowedDay(c) == sg_params.days = {} \/ strftime_a(c.start) \in sg_params.days

Overlaps(c, b) == c.start < b.end /\ b.start < c.end

\* C6: every candidate has end - start equal to the duration and lies in
\* free time: inside [window_start, window_end], inside the work hours of its
\* local day, on an allowed weekday, and overlapping no busy interval.
C6_CandidateValidity ==
    sg_pc = "done" =>
        \A c \in SeqRange(proposals) :
            /\ c.end - c.start = SgDuration
            /\ sg_params.wstart <= c.start /\ c.end <= sg_params.wend
            /\ InWorkHours(c)
            /\ OnAllowedDay(c)
            /\ \A b \in SeqRange(sg_params.busy) : b.start < b.end => ~Overlaps(c, b)

\* A tick of free time: in the window, in the work hours of an allowed day,
\* in no busy interval.
FreeTick(t) ==
    /\ sg_params.wstart <= t /\ t + 1 <= sg_params.wend
    /\ sg_params.hstart * SubSecond <= t % SgDay
    /\ (t % SgDay) + 1 <= sg_params.hend * SubSecond
    /\ (sg_params.days = {} \/ strftime_a(t) \in sg_params.days)
    /\ \A b \in SeqRange(sg_params.busy) : ~(b.start <= t /\ t < b.end)

SgHorizon == (MaxDays + 1) * SgDay

\* The free segment that starts at tick a ends at the first tick not free.
SegmentEnd(a) == CHOOSE e \in (a + 1) .. (SgHorizon + 1) :
                    ~FreeTick(e) /\ \A t \in a .. (e - 1) : FreeTick(t)

\* Starts of the free segments that can hold the meeting.
QualifyingStarts ==
    {a \in 0 .. SgHorizon :
        /\ FreeTick(a) /\ (a = 0 \/ ~FreeTick(a - 1))
        /\ SegmentEnd(a) - a >= SgDuration}

\* C7: at most 3 candidates, with strictly increasing starts, which are the
\* starts of the chronologically first min(3, k) free segments at least as
\* long as the duration (none is skipped); none at all gives an empty list.
C7_FirstNChronological ==
    sg_pc = "done" =>
        /\ Len(proposals) <= 3
        /\ Len(proposals) = Min2(3, Cardinality(QualifyingStarts))
        /\ \A i \in 1 .. Len(proposals) :
              /\ proposals[i].start \in QualifyingStarts
              /\ Cardinality({a \in QualifyingStarts : a < proposals[i].start}) = i - 1

\* Whole-second boundaries everywhere, and only proper busy intervals.
WholeSecondInputs ==
    /\ sg_params.wstart % SubSecond = 0 /\ sg_params.wend % SubSecond = 0
    /\ \A b \in SeqRange(sg_params.busy) :
          b.start % SubSecond = 0 /\ b.end % SubSecond = 0
    /\ ProperIntervals(sg_params.busy)

\* On whole-second inputs with proper busy intervals both properties hold.
C6_OnWholeSeconds == WholeSecondInputs => C6_CandidateValidity
C7_OnWholeSeconds == WholeSecondInputs => C7_FirstNChronological

\* A busy interval that ends after it starts; the others are degenerate.
IsProperInterval(b) == b.start < b.end

\* The busy list with its degenerate intervals removed.
WithoutDegenerate(busy) == SelectSeq(busy, IsProperInterval)

\* C11: a busy interval with end <= start is inert: the free segments and the
\* candidates suggest_times computes are those it computes from the busy list
\* with every such interval removed.
C11_DegenerateInert ==
    sg_pc = "done" =>
        LET kept == WithoutDegenerate(sg_params.busy)
            ref == refine(free_blocks, kept, SgDuration)
        IN /\ refined = ref
           /\ proposals = propose(ref, SgDuration, <<>>)

\* A busy list without degenerate intervals is its own filtered list, so the
\* property can only fail on a list that has one.
C11_OnProperIntervals ==
    (sg_pc = "done" /\ ProperIntervals(sg_params.busy)) => C11_DegenerateInert

\* A degenerate interval that lies outside every free block changes nothing.
C11_InertCase ==
    /\ sg_pc = "done"
    /\ ~ProperIntervals(sg_params.busy)
    /\ proposals # <<>>
    /\ C11_DegenerateInert

(***************************************************************************)
(* Claims about the OAuth state table.                                     *)
(***************************************************************************)

\* start returned the state of request r to its caller.
Issued(r) == oa_kind[r] = "start" /\ oa_pc[r] = "done"

\* A callback for state s got as far as saving credentials.
Consumed(s) == \E e \in creds : e.state = s

\* Issued and not yet consumed.
Pending(r) == Issued(r) /\ ~Consumed(oa_state[r])

IssuedEntry(r) == [state |-> oa_state[r], user_id |-> oa_user[r]]

\* No request is between opening the state file for writing and writing it.
NoWriteInProgress == \A q \in Requests : oa_pc[q] \notin {"start_dump", "cb_dump"}

\* C12: under any interleaving of start and callback requests, every issued
\* state stays in the state store, mapped to the user who asked for it, until
\* a callback for it succeeds (no write of the file loses another request's
\* entry); a callback that carries such a state finds it when it looks it up;
\* and credentials are only ever saved for the user the state was issued to.
C12_StateTableConcurrency ==
    /\ NoWriteInProgress =>
          \A r \in Requests :
              Pending(r) => IssuedEntry(r) \in state_store_get(state_file)
    /\ \A c, r \in Requests :
          (/\ oa_kind[c] = "callback" /\ oa_pc[c] = "cb_get"
           /\ Pending(r) /\ oa_state[c] = oa_state[r])
          => dict_get(state_store_get(state_file), oa_state[c]) = {IssuedEntry(r)}
    /\ \A e \in creds :
          \E r \in Requests :
              oa_kind[r] = "start" /\ IssuedEntry(r) = e

\* The part of C12 about whose credentials are saved.
C12_NeverOtherUser ==
    \A e \in creds :
        \E r \in Requests : Issued(r) /\ IssuedEntry(r) = e

\* Every request has finished, the file parses, and an issued state that no
\* callback has consumed is missing from it: a lost update.
C12_LostUpdate ==
    /\ \A r \in Requests : oa_pc[r] = "done"
    /\ state_file.ok
    /\ \E r \in Requests : Pending(r) /\ IssuedEntry(r) \notin state_file.data

\* A callback that carries an issued, unconsumed state is about to look it
\* up while every other request has finished, and the state is not in the
\* file: its answer will be "Unknown or expired state".
C12_RejectedCallback ==
    \E c, r \in Requests :
        /\ oa_kind[c] = "callback" /\ oa_pc[c] = "cb_get"
        /\ Pending(r) /\ oa_state[c] = oa_state[r]
        /\ \A q \in Requests \ {c} : oa_pc[q] = "done"
        /\ state_file.ok /\ IssuedEntry(r) \notin state_file.data

\* Two writers overlapped and left a file that does not parse.
C12_CorruptFile ==
    /\ \A r \in Requests : oa_pc[r] = "done"
    /\ ~state_file.ok

====
